---- MODULE Spec2Model ----
(***************************************************************************)
(* hardlylinked1: save and restore hard links.                             *)
(*                                                                         *)
(* File names are byte strings: sequences of integers 0..255.  Three       *)
(* specifications share the module:                                        *)
(*   SpecCodec    escape_filename / unescape_filename on bounded inputs    *)
(*   Spec         hard_links_save over a small tree, followed by           *)
(*                hard_links_restore of the written store on a copy        *)
(*   SpecRestore  hard_links_restore over an arbitrary bounded store       *)
(***************************************************************************)
EXTENDS Integers, Sequences, FiniteSets, TLC

VARIABLES
    c_pc, c_in, c_esc, c_dec, c_rt,                \* codec runs
    files, firstlinks, extralinks, tree,           \* arguments and file system of a save run
    s_pc, s_err, handles, inodes, store_fp, first_fp, extra_fp,
    rootIdx, pending, fullname, encountered, calls,
    r_pc, r_err, r_lines, r_ofs, r_fs, linkCalls, linked, r_fail

codecVars == <<c_pc, c_in, c_esc, c_dec, c_rt>>
saveVars == <<files, firstlinks, extralinks, tree, s_pc, s_err, handles, inodes,
              store_fp, first_fp, extra_fp, rootIdx, pending, fullname,
              encountered, calls>>
restoreVars == <<r_pc, r_err, r_lines, r_ofs, r_fs, linkCalls, linked, r_fail>>
vars == <<codecVars, saveVars, restoreVars>>

----------------------------------------------------------------------------
(* Bounds *)

MaxNameLen == 4     \* longest byte string given to the codec
MaxRoots == 2       \* longest list of roots of a save run
MaxInode == 2       \* inode numbers of regular files are 1..MaxInode
MaxLines == 6       \* most lines of an arbitrary link store

----------------------------------------------------------------------------
(* Bytes *)

NL == 10            \* b'\n'
SLASH == 47         \* b'/'
BACKSLASH == 92     \* ord('\\')
LOWER_X == 120      \* the 'x' of b'\\x%02X'

\* string.printable: digits, letters, punctuation and whitespace
PRINTABLE_SET == (9..13) \cup (32..126)

\* string.whitespace: ' \t\n\r\x0b\x0c'
WHITESPACE_SET == {9, 10, 11, 12, 13, 32}

\* set([b'\\']): its one element is a bytes object, which equals no integer
\* byte value, so as a set of byte values it is empty
BACKSLASH_BYTES_SET == {}

NONESC_SET == (PRINTABLE_SET \ WHITESPACE_SET) \ BACKSLASH_BYTES_SET

\* '%X' of one nibble
HexDigitUpper(n) == IF n < 10 THEN 48 + n ELSE 55 + n

\* value of a hexadecimal digit byte, -1 for any other byte
HexVal(c) ==
    IF c \in 48..57 THEN c - 48
    ELSE IF c \in 65..70 THEN c - 55
    ELSE IF c \in 97..102 THEN c - 87
    ELSE -1

\* filename[lo:hi] with 0-based, clipped Python slice bounds
PySlice(s, lo, hi) ==
    LET h == IF hi > Len(s) THEN Len(s) ELSE hi
    IN  IF lo >= h THEN <<>> ELSE SubSeq(s, lo + 1, h)

RECURSIVE LStrip(_)
LStrip(s) ==
    IF s # <<>> /\ s[1] \in WHITESPACE_SET THEN LStrip(Tail(s)) ELSE s

RECURSIVE RStrip(_)
RStrip(s) ==
    IF s # <<>> /\ s[Len(s)] \in WHITESPACE_SET
    THEN RStrip(SubSeq(s, 1, Len(s) - 1)) ELSE s

RECURSIVE HexDigitsValue(_, _)
HexDigitsValue(d, acc) ==
    IF d = <<>> THEN acc
    ELSE IF d[1] = 95 THEN HexDigitsValue(Tail(d), acc)
    ELSE HexDigitsValue(Tail(d), 16 * acc + HexVal(d[1]))

\* int(s, 16) on a bytes object: surrounding whitespace, one sign, an
\* optional 0x prefix, then hex digits with single underscores between them.
\* ok = FALSE stands for ValueError.
HexLiteralValid(d) ==
    /\ d # <<>>
    /\ HexVal(d[1]) >= 0
    /\ HexVal(d[Len(d)]) >= 0
    /\ \A i \in 1..Len(d) : HexVal(d[i]) >= 0 \/ d[i] = 95
    /\ \A i \in 1..(Len(d) - 1) : ~(d[i] = 95 /\ d[i + 1] = 95)

ParseMagnitude(d) ==
    IF HexLiteralValid(d)
    THEN [ok |-> TRUE, val |-> HexDigitsValue(d, 0)]
    ELSE [ok |-> FALSE, val |-> 0]

StripPrefix(c) ==
    IF Len(c) >= 2 /\ c[1] = 48 /\ c[2] \in {88, 120}
    THEN (IF Len(c) >= 3 /\ c[3] = 95 THEN SubSeq(c, 4, Len(c)) ELSE SubSeq(c, 3, Len(c)))
    ELSE c

Negated(r) == [r EXCEPT !.val = 0 - @]

ParseSigned(b) ==
    IF b # <<>> /\ b[1] = 45 THEN Negated(ParseMagnitude(StripPrefix(Tail(b))))
    ELSE IF b # <<>> /\ b[1] = 43 THEN ParseMagnitude(StripPrefix(Tail(b)))
    ELSE ParseMagnitude(StripPrefix(b))

PyIntHex(s) == ParseSigned(RStrip(LStrip(s)))

RECURSIVE escape_from(_, _)
escape_from(filename, esc_bytes) ==
    IF filename = <<>> THEN esc_bytes
    ELSE LET byte == Head(filename)
         IN  IF byte \in NONESC_SET
             THEN escape_from(Tail(filename), Append(esc_bytes, byte))
             ELSE escape_from(Tail(filename),
                      esc_bytes \o <<BACKSLASH, LOWER_X,
                                     HexDigitUpper(byte \div 16),
                                     HexDigitUpper(byte % 16)>>)

escape_filename(filename) == escape_from(filename, <<>>)

\* outcome of a call that returns bytes or raises
Returned(b) == [ok |-> TRUE, val |-> b]
Raised == [ok |-> FALSE, val |-> <<>>]

\* ofs is the Python offset (0-based); bytearray.append raises ValueError
\* outside range(0, 256)
RECURSIVE unescape_from(_, _, _)
unescape_from(filename, ofs, unesc_bytes) ==
    IF ofs >= Len(filename) THEN Returned(unesc_bytes)
    ELSE IF filename[ofs + 1] = BACKSLASH
         THEN LET n == PyIntHex(PySlice(filename, ofs + 2, ofs + 4))
              IN  IF n.ok /\ n.val \in 0..255
                  THEN unescape_from(filename, ofs + 4, Append(unesc_bytes, n.val))
                  ELSE Raised
         ELSE unescape_from(filename, ofs + 1, Append(unesc_bytes, filename[ofs + 1]))

unescape_filename(filename) == unescape_from(filename, 0, <<>>)

----------------------------------------------------------------------------
(* Codec runs: one byte string is escaped, unescaped as it is, and the     *)
(* escaped form is unescaped again.                                        *)

\* backslash, 'x', '4', 'F', newline, 0xFF, '+', 'z'
CodecBytes == {BACKSLASH, LOWER_X, 52, 70, NL, 255, 43, 122}

RECURSIVE SeqsUpTo(_, _)
SeqsUpTo(S, n) ==
    IF n = 0 THEN {<<>>}
    ELSE LET shorter == SeqsUpTo(S, n - 1)
         IN  shorter \cup {Append(s, b) : s \in shorter, b \in S}

NotRun == [ok |-> FALSE, val |-> <<0>>]

CodecIdle ==
    /\ c_pc = "idle" /\ c_in = <<>> /\ c_esc = <<>>
    /\ c_dec = NotRun /\ c_rt = NotRun

CodecInit ==
    /\ c_pc = "start"
    /\ c_in \in SeqsUpTo(CodecBytes, MaxNameLen)
    /\ c_esc = <<>>
    /\ c_dec = NotRun
    /\ c_rt = NotRun

EscapeStep ==
    /\ c_pc = "start"
    /\ c_esc' = escape_filename(c_in)
    /\ c_pc' = "escaped"
    /\ UNCHANGED <<c_in, c_dec, c_rt, saveVars, restoreVars>>

UnescapeStep ==
    /\ c_pc = "escaped"
    /\ c_dec' = unescape_filename(c_in)
    /\ c_pc' = "unescaped"
    /\ UNCHANGED <<c_in, c_esc, c_rt, saveVars, restoreVars>>

RoundTripStep ==
    /\ c_pc = "unescaped"
    /\ c_rt' = unescape_filename(c_esc)
    /\ c_pc' = "done"
    /\ UNCHANGED <<c_in, c_esc, c_dec, saveVars, restoreVars>>

----------------------------------------------------------------------------
(* The file system seen by a save run: directory d, with regular files     *)
(* and possibly a subdirectory s holding a regular file.                   *)

D == <<100>>                          \* "d"
DS == <<100, SLASH, 115>>             \* "d/s"
DA == <<100, SLASH, 97>>              \* "d/a"
FileNames == {<<97>>, <<BACKSLASH>>}  \* names of regular files in d: "a", "\"
SubNames == {<<NL>>}                  \* names of regular files in d/s: a newline
RootPaths == {D, DS, DA}              \* what the command line may name

FileInodes == 1..MaxInode
DirInode(p) == IF p = D THEN MaxInode + 1 ELSE MaxInode + 2

\* os.lstat results of every existing path; 0 in df/sf means "no such file"
TreeOf(df, sub, sf) ==
    LET dpaths == {D \o <<SLASH>> \o n : n \in {m \in FileNames : df[m] # 0}}
        spaths == IF sub
                  THEN {DS \o <<SLASH>> \o n : n \in {m \in SubNames : sf[m] # 0}}
                  ELSE {}
        dirs == IF sub THEN {D, DS} ELSE {D}
    IN  [p \in dirs \cup dpaths \cup spaths |->
            IF p \in dirs THEN [isdir |-> TRUE, ino |-> DirInode(p)]
            ELSE IF p \in dpaths
                 THEN [isdir |-> FALSE, ino |-> df[SubSeq(p, Len(D) + 2, Len(p))]]
                 ELSE [isdir |-> FALSE, ino |-> sf[SubSeq(p, Len(DS) + 2, Len(p))]]]

Trees ==
    {TreeOf(df, FALSE, [n \in SubNames |-> 0]) : df \in [FileNames -> 0..MaxInode]}
    \cup {TreeOf(df, TRUE, sf) : df \in [FileNames -> 0..MaxInode],
                                 sf \in [SubNames -> 0..MaxInode]}

\* names listed in directory dirpath
Listing(fs, dirpath) ==
    LET pre == dirpath \o <<SLASH>>
    IN  {SubSeq(p, Len(pre) + 1, Len(p)) :
            p \in {q \in DOMAIN fs :
                     /\ Len(q) > Len(pre)
                     /\ SubSeq(q, 1, Len(pre)) = pre
                     /\ \A i \in (Len(pre) + 1)..Len(q) : q[i] # SLASH}}

Perms(S) ==
    {p \in [1..Cardinality(S) -> S] : \A i, j \in 1..Cardinality(S) : p[i] = p[j] => i = j}

\* os.walk(top), top-down: per directory the loop takes dirnames + filenames,
\* each in the order the file system lists them (any order), then os.walk
\* descends into the dirnames in that order.  An element is <<dirpath, name>>.
RECURSIVE os_walk(_, _), walk_subdirs(_, _, _)
os_walk(fs, top) ==
    LET names == Listing(fs, top)
        dirnames == {n \in names : fs[top \o <<SLASH>> \o n].isdir}
        filenames == names \ dirnames
    IN  UNION {{[i \in 1..(Len(pd) + Len(pf)) |->
                    <<top, IF i <= Len(pd) THEN pd[i] ELSE pf[i - Len(pd)]>>] \o rest :
                  rest \in walk_subdirs(fs, top, pd)} :
               pd \in Perms(dirnames), pf \in Perms(filenames)}
walk_subdirs(fs, top, dirnames) ==
    IF dirnames = <<>> THEN {<<>>}
    ELSE {w \o r : w \in os_walk(fs, top \o <<SLASH>> \o Head(dirnames)),
                   r \in walk_subdirs(fs, top, Tail(dirnames))}

\* fullname = dirpath + b'/' + name
dirpath_name(e) == e[1] \o <<SLASH>> \o e[2]

----------------------------------------------------------------------------
(* HardLinksState *)

Unbound == [bound |-> FALSE, val |-> <<>>]
Bound(v) == [bound |-> TRUE, val |-> v]

\* a file is modelled by the sequence of byte strings written to it
RECURSIVE Concat(_)
Concat(chunks) == IF chunks = <<>> THEN <<>> ELSE Head(chunks) \o Concat(Tail(chunks))

\* fp.readline() until EOF: each line keeps its newline, a last line without
\* one is returned as it is
RECURSIVE ReadLines(_, _)
ReadLines(content, cur) ==
    IF content = <<>> THEN (IF cur = <<>> THEN <<>> ELSE <<cur>>)
    ELSE IF Head(content) = NL
         THEN <<Append(cur, NL)>> \o ReadLines(Tail(content), <<>>)
         ELSE ReadLines(Tail(content), Append(cur, Head(content)))

\* record_file with the side logs crossed: a duplicate is logged as a first
\* use as well
record_file_crossed_logs(self, filename, inode) ==
    IF inode \in DOMAIN self.inodes
    THEN [self EXCEPT
            !.store_fp = @ \o <<escape_filename(self.inodes[inode]) \o <<NL>>,
                                escape_filename(filename) \o <<NL>>>>,
            !.first_fp = IF self.has_first THEN Append(@, filename \o <<NL>>) ELSE @,
            !.extra_fp = IF self.has_extra THEN Append(@, filename \o <<NL>>) ELSE @]
    ELSE [self EXCEPT
            !.inodes = [i \in DOMAIN self.inodes \cup {inode} |->
                            IF i = inode THEN filename ELSE self.inodes[i]],
            !.first_fp = IF self.has_first THEN Append(@, filename \o <<NL>>) ELSE @]

\* record_file that remembers the latest name of an inode instead of the first
record_file_last_seen(self, filename, inode) ==
    IF inode \in DOMAIN self.inodes
    THEN [self EXCEPT
            !.store_fp = @ \o <<escape_filename(self.inodes[inode]) \o <<NL>>,
                                escape_filename(filename) \o <<NL>>>>,
            !.inodes = [@ EXCEPT ![inode] = filename],
            !.extra_fp = IF self.has_extra THEN Append(@, filename \o <<NL>>) ELSE @]
    ELSE [self EXCEPT
            !.inodes = [i \in DOMAIN self.inodes \cup {inode} |->
                            IF i = inode THEN filename ELSE self.inodes[i]],
            !.first_fp = IF self.has_first THEN Append(@, filename \o <<NL>>) ELSE @]

\* self is [inodes, store_fp, first_fp, extra_fp, has_first, has_extra];
\* has_first / has_extra say that first_fp / extra_fp is not None
record_file(self, filename, inode) ==
    IF inode \in DOMAIN self.inodes
    THEN [self EXCEPT
            !.store_fp = @ \o <<escape_filename(self.inodes[inode]) \o <<NL>>,
                                escape_filename(filename) \o <<NL>>>>,
            !.extra_fp = IF self.has_extra THEN Append(@, filename \o <<NL>>) ELSE @]
    ELSE [self EXCEPT
            !.inodes = [i \in DOMAIN self.inodes \cup {inode} |->
                            IF i = inode THEN filename ELSE self.inodes[i]],
            !.first_fp = IF self.has_first THEN Append(@, filename \o <<NL>>) ELSE @]

Self == [inodes |-> inodes, store_fp |-> store_fp, first_fp |-> first_fp,
         extra_fp |-> extra_fp, has_first |-> firstlinks, has_extra |-> extralinks]

\* the assignments a record_file call makes to the state object
Recorded(filename, inode) ==
    LET new == record_file(Self, filename, inode)
    IN  /\ inodes' = new.inodes
        /\ store_fp' = new.store_fp
        /\ first_fp' = new.first_fp
        /\ extra_fp' = new.extra_fp
        /\ calls' = Append(calls, [filename |-> filename, inode |-> inode])

NoHandles == [store |-> "unopened", first |-> "unopened", extra |-> "unopened"]

SaveIdle ==
    /\ files = <<>> /\ firstlinks = FALSE /\ extralinks = FALSE
    /\ tree = TreeOf([n \in FileNames |-> 0], FALSE, [n \in SubNames |-> 0])
    /\ s_pc = "idle" /\ s_err = "none" /\ handles = NoHandles
    /\ inodes = <<>> /\ store_fp = <<>> /\ first_fp = <<>> /\ extra_fp = <<>>
    /\ rootIdx = 0 /\ pending = <<>> /\ fullname = Unbound
    /\ encountered = <<>> /\ calls = <<>>

SaveInit ==
    /\ files \in SeqsUpTo(RootPaths, MaxRoots) \ {<<>>}
    /\ firstlinks \in BOOLEAN
    /\ extralinks \in BOOLEAN
    /\ tree \in Trees
    /\ s_pc = "init" /\ s_err = "none" /\ handles = NoHandles
    /\ inodes = <<>> /\ store_fp = <<>> /\ first_fp = <<>> /\ extra_fp = <<>>
    /\ rootIdx = 0 /\ pending = <<>> /\ fullname = Unbound
    /\ encountered = <<>> /\ calls = <<>>

\* HardLinksState.__init__: the three open() calls in order; failsAt names
\* the open() that raises OSError, the handles opened before it stay open
HardLinksState_init(failsAt) ==
    IF failsAt = "store" THEN NoHandles
    ELSE IF failsAt = "first" THEN [NoHandles EXCEPT !.store = "open"]
    ELSE IF failsAt = "extra"
         THEN [store |-> "open",
               first |-> IF firstlinks THEN "open" ELSE "unopened",
               extra |-> "unopened"]
         ELSE [store |-> "open",
               first |-> IF firstlinks THEN "open" ELSE "unopened",
               extra |-> IF extralinks THEN "open" ELSE "unopened"]

SaveOpen ==
    /\ s_pc = "init"
    /\ \E failsAt \in {"none", "store"}
                      \cup (IF firstlinks THEN {"first"} ELSE {})
                      \cup (IF extralinks THEN {"extra"} ELSE {}) :
          /\ handles' = HardLinksState_init(failsAt)
          /\ s_pc' = IF failsAt = "none" THEN "walking" ELSE "failed"
          /\ s_err' = IF failsAt = "none" THEN "none" ELSE "OSError"
    /\ inodes' = <<>>
    /\ UNCHANGED <<files, firstlinks, extralinks, tree, store_fp, first_fp, extra_fp,
                   rootIdx, pending, fullname, encountered, calls,
                   codecVars, restoreVars>>

\* for path in files: st_path = os.lstat(path); a directory starts os.walk,
\* anything else is recorded through the variable fullname
SaveNextRoot ==
    /\ s_pc = "walking"
    /\ pending = <<>>
    /\ rootIdx < Len(files)
    /\ LET path == files[rootIdx + 1]
       IN  IF path \notin DOMAIN tree
           THEN /\ s_pc' = "failed" /\ s_err' = "OSError"
                /\ UNCHANGED <<rootIdx, pending, inodes, store_fp, first_fp, extra_fp,
                               encountered, calls>>
           ELSE IF tree[path].isdir
           THEN /\ pending' \in os_walk(tree, path)
                /\ rootIdx' = rootIdx + 1
                /\ UNCHANGED <<s_pc, s_err, inodes, store_fp, first_fp, extra_fp,
                               encountered, calls>>
           ELSE /\ encountered' = Append(encountered,
                                    [path |-> path, ino |-> tree[path].ino, root |-> TRUE])
                /\ IF fullname.bound
                   THEN /\ Recorded(fullname.val, tree[path].ino)
                        /\ rootIdx' = rootIdx + 1
                        /\ UNCHANGED <<s_pc, s_err, pending>>
                   ELSE /\ s_pc' = "failed" /\ s_err' = "UnboundLocalError"
                        /\ UNCHANGED <<rootIdx, pending, inodes, store_fp, first_fp,
                                       extra_fp, calls>>
    /\ UNCHANGED <<files, firstlinks, extralinks, tree, handles, fullname,
                   codecVars, restoreVars>>

\* one pass of the inner loop: fullname = dirpath + b'/' + name, then
\* os.lstat(fullname), which raises when the entry has gone meanwhile
SaveRecordEntry ==
    /\ s_pc = "walking"
    /\ pending # <<>>
    /\ LET name == dirpath_name(Head(pending))
       IN  /\ fullname' = Bound(name)
           /\ pending' = Tail(pending)
           /\ \E gone \in BOOLEAN :
                IF gone
                THEN /\ s_pc' = "failed" /\ s_err' = "OSError"
                     /\ UNCHANGED <<inodes, store_fp, first_fp, extra_fp,
                                    encountered, calls>>
                ELSE /\ encountered' = Append(encountered,
                                         [path |-> name, ino |-> tree[name].ino,
                                          root |-> FALSE])
                     /\ Recorded(name, tree[name].ino)
                     /\ UNCHANGED <<s_pc, s_err>>
    /\ UNCHANGED <<files, firstlinks, extralinks, tree, handles, rootIdx,
                   codecVars, restoreVars>>

\* hard_links_save returns: it never calls close(); whether the handles are
\* closed when the state object is dropped is left to the interpreter's
\* garbage collection
SaveFinish ==
    /\ s_pc = "walking"
    /\ pending = <<>>
    /\ rootIdx = Len(files)
    /\ s_pc' = "done"
    /\ \E collected \in BOOLEAN :
          handles' = [h \in DOMAIN handles |->
                        IF collected /\ handles[h] = "open" THEN "closed" ELSE handles[h]]
    /\ UNCHANGED <<files, firstlinks, extralinks, tree, s_err, inodes, store_fp,
                   first_fp, extra_fp, rootIdx, pending, fullname, encountered, calls,
                   codecVars, restoreVars>>

----------------------------------------------------------------------------
(* hard_links_restore *)

\* the directory part of a path, <<>> for a name in the current directory
RECURSIVE Dirname(_)
Dirname(p) ==
    IF p = <<>> THEN <<>>
    ELSE IF p[Len(p)] = SLASH THEN SubSeq(p, 1, Len(p) - 1)
    ELSE Dirname(SubSeq(p, 1, Len(p) - 1))

\* os.link(src, dst) on file system fs: a new name for the inode of src, or
\* an error (NUL in a name, src missing or a directory, dst empty or
\* existing, directory of dst missing)
os_link(fs, src, dst) ==
    IF (\E i \in 1..Len(src) : src[i] = 0) \/ (\E i \in 1..Len(dst) : dst[i] = 0)
    THEN [ok |-> FALSE, err |-> "ValueError", fs |-> fs]
    ELSE IF \/ src \notin DOMAIN fs
            \/ dst = <<>>
            \/ dst \in DOMAIN fs
            \/ fs[src].isdir
            \/ /\ Dirname(dst) # <<>>
               /\ ~(Dirname(dst) \in DOMAIN fs /\ fs[Dirname(dst)].isdir)
    THEN [ok |-> FALSE, err |-> "OSError", fs |-> fs]
    ELSE [ok |-> TRUE, err |-> "none",
          fs |-> [p \in DOMAIN fs \cup {dst} |-> IF p = dst THEN fs[src] ELSE fs[p]]]

\* store_fp.readline() with ofs lines already read: b'' at end of file
readline(lines, ofs) == IF ofs < Len(lines) THEN lines[ofs + 1] ELSE <<>>

\* the pair an iteration starting at line offset ofs works on, counted from 1
PairAt(ofs) == ofs \div 2 + 1

Failed(st, err) ==
    [st EXCEPT !.pc = "failed", !.err = err, !.fail = PairAt(st.ofs)]

\* a failed os.link skipped over instead of raised
link_outcome_continue(st, lines, request, res) ==
    IF ~res.ok
    THEN [st EXCEPT !.err = res.err,
                    !.fail = IF @ = 0 THEN PairAt(st.ofs) ELSE @,
                    !.ofs = IF @ + 2 > Len(lines) THEN Len(lines) ELSE @ + 2,
                    !.linkCalls = Append(@, request)]
    ELSE [st EXCEPT !.ofs = IF @ + 2 > Len(lines) THEN Len(lines) ELSE @ + 2,
                    !.fs = res.fs,
                    !.linkCalls = Append(@, request),
                    !.linked = Append(@, request)]

\* os.link(first_fname, extra_fname) was requested with result res: an error
\* leaves the loop, otherwise both lines are consumed
link_outcome(st, lines, request, res) ==
    IF ~res.ok
    THEN [Failed(st, res.err) EXCEPT !.linkCalls = Append(@, request)]
    ELSE [st EXCEPT !.ofs = IF @ + 2 > Len(lines) THEN Len(lines) ELSE @ + 2,
                    !.fs = res.fs,
                    !.linkCalls = Append(@, request),
                    !.linked = Append(@, request)]

\* the two unescape_filename results, then os.link
link_pair(st, lines, first_fname, extra_fname) ==
    IF ~first_fname.ok \/ ~extra_fname.ok THEN Failed(st, "ValueError")
    ELSE link_outcome(st, lines,
             [src |-> first_fname.val, dst |-> extra_fname.val, pair |-> PairAt(st.ofs)],
             os_link(st.fs, first_fname.val, extra_fname.val))

\* esc_fname[:-1]
ChopLast(esc_fname) == PySlice(esc_fname, 0, Len(esc_fname) - 1)

\* one pass of the while loop; st is [pc, err, ofs, fs, linkCalls, linked, fail]
restore_iteration(st, lines) ==
    IF readline(lines, st.ofs) = <<>> THEN [st EXCEPT !.pc = "done"]
    ELSE link_pair(st, lines,
             unescape_filename(ChopLast(readline(lines, st.ofs))),
             unescape_filename(ChopLast(readline(lines, st.ofs + 1))))

RSelf == [pc |-> r_pc, err |-> r_err, ofs |-> r_ofs, fs |-> r_fs,
          linkCalls |-> linkCalls, linked |-> linked, fail |-> r_fail]

RestoreIdle ==
    /\ r_pc = "idle" /\ r_err = "none" /\ r_lines = <<>> /\ r_ofs = 0
    /\ r_fs = <<>> /\ linkCalls = <<>> /\ linked = <<>> /\ r_fail = 0

A == <<97>>
B == <<98>>
C == <<99>>

\* lines of an arbitrary store: "a", "b", "c" and the malformed escape "\xzz"
StoreLines == {A \o <<NL>>, B \o <<NL>>, C \o <<NL>>,
               <<BACKSLASH, LOWER_X, 122, 122, NL>>}

\* the regular files present before an arbitrary store is restored
RestoreTrees ==
    {[p \in S |-> [isdir |-> FALSE, ino |-> p[1]]] : S \in SUBSET {A, B}}

RestoreInit ==
    /\ r_pc = "running" /\ r_err = "none"
    /\ r_lines \in SeqsUpTo(StoreLines, MaxLines)
    /\ r_ofs = 0
    /\ r_fs \in RestoreTrees
    /\ linkCalls = <<>> /\ linked = <<>> /\ r_fail = 0

\* the paths met first for their inode, and those met only as later names
FirstSeenPaths ==
    {encountered[i].path : i \in {k \in 1..Len(encountered) :
        \A j \in 1..(k - 1) : encountered[j].ino # encountered[k].ino}}
DuplicatePaths ==
    {encountered[i].path : i \in {k \in 1..Len(encountered) :
        \E j \in 1..(k - 1) : encountered[j].ino = encountered[k].ino}} \ FirstSeenPaths

\* a copy of the tree that lost its hard links: of each inode's names only
\* the first-seen one is there
CopyOfTree == [p \in DOMAIN tree \ DuplicatePaths |-> tree[p]]

\* hard_links_restore is called with the store a finished save run wrote
BeginRestore ==
    /\ s_pc = "done"
    /\ r_pc = "idle"
    /\ r_pc' = "running"
    /\ r_lines' = ReadLines(Concat(store_fp), <<>>)
    /\ r_fs' = CopyOfTree
    /\ UNCHANGED <<r_err, r_ofs, linkCalls, linked, r_fail, codecVars, saveVars>>

RestoreLoop ==
    /\ r_pc = "running"
    /\ LET new == restore_iteration(RSelf, r_lines)
       IN  /\ r_pc' = new.pc
           /\ r_err' = new.err
           /\ r_ofs' = new.ofs
           /\ r_fs' = new.fs
           /\ linkCalls' = new.linkCalls
           /\ linked' = new.linked
           /\ r_fail' = new.fail
    /\ UNCHANGED <<r_lines, codecVars, saveVars>>

----------------------------------------------------------------------------
(* Specifications *)

Init == CodecIdle /\ SaveInit /\ RestoreIdle

Next ==
    \/ SaveOpen
    \/ SaveNextRoot
    \/ SaveRecordEntry
    \/ SaveFinish
    \/ BeginRestore
    \/ RestoreLoop

Spec == Init /\ [][Next]_vars

InitRestore == CodecIdle /\ SaveIdle /\ RestoreInit

NextRestore == RestoreLoop

SpecRestore == InitRestore /\ [][NextRestore]_vars

InitCodec == CodecInit /\ SaveIdle /\ RestoreIdle

NextCodec ==
    \/ EscapeStep
    \/ UnescapeStep
    \/ RoundTripStep

SpecCodec == InitCodec /\ [][NextCodec]_vars

----------------------------------------------------------------------------
(* Properties of the codec, checked under SpecCodec *)

\* the scan of unescape_filename meets a backslash that is not followed by
\* 'x' and two more bytes, or whose two digit bytes are not both hexadecimal
RECURSIVE MalformedFrom(_, _)
MalformedFrom(s, ofs) ==
    IF ofs >= Len(s) THEN FALSE
    ELSE IF s[ofs + 1] = BACKSLASH
         THEN \/ Len(s) < ofs + 4
              \/ HexVal(s[ofs + 3]) < 0
              \/ HexVal(s[ofs + 4]) < 0
              \/ MalformedFrom(s, ofs + 4)
         ELSE MalformedFrom(s, ofs + 1)

\* C1: for every byte string b without a NUL byte,
\* unescape_filename(escape_filename(b)) returns exactly b.
C1_RoundTrip ==
    (c_pc = "done" /\ \A i \in 1..Len(c_in) : c_in[i] # 0) => c_rt = Returned(c_in)

\* C7: unescape_filename raises, and returns no bytes, for every input in
\* which a backslash is followed by too few bytes for an escape or by bytes
\* that are not hexadecimal digits, also at the very end of the input.
C7_MalformedRaises ==
    (c_pc \in {"unescaped", "done"} /\ MalformedFrom(c_in, 0)) => ~c_dec.ok

----------------------------------------------------------------------------
(* Properties of a save run, checked under Spec *)

StoreLinesWritten == ReadLines(Concat(store_fp), <<>>)

InodesOf(seq) == {seq[i].ino : i \in 1..Len(seq)}

IsDuplicateCall(i) == \E j \in 1..(i - 1) : calls[j].inode = calls[i].inode
DuplicateCalls == SelectSeq([i \in 1..Len(calls) |-> i], IsDuplicateCall)

C9_State ==
    LET lines == StoreLinesWritten
        dups == DuplicateCalls
    IN  /\ DOMAIN inodes = {calls[i].inode : i \in 1..Len(calls)}
        /\ \A i \in 1..Len(calls) :
              ~IsDuplicateCall(i) => inodes[calls[i].inode] = calls[i].filename
        /\ Len(lines) % 2 = 0
        /\ Len(lines) = 2 * Len(dups)
        /\ \A k \in 1..Len(dups) :
              /\ lines[2 * k - 1] = escape_filename(inodes[calls[dups[k]].inode]) \o <<NL>>
              /\ lines[2 * k] = escape_filename(calls[dups[k]].filename) \o <<NL>>

C9_Step ==
    \A id \in DOMAIN inodes : id \in DOMAIN inodes' /\ inodes'[id] = inodes[id]

\* C9: after any record_file calls of one save run, the registry maps each
\* inode to the name of the first call made with it and never changes an
\* entry; the link store has an even number of lines; its k-th pair of
\* lines is the escaped first-seen name and the escaped name of the k-th
\* duplicate call, which has the same inode.
C9_Registry == [] C9_State /\ [][C9_Step]_vars

C9_Witness ==
    /\ Len(DuplicateCalls) >= 2
    /\ Cardinality(DOMAIN inodes) >= 2
    /\ \E k \in 1..Len(DuplicateCalls) :
          /\ calls[DuplicateCalls[k]].filename # inodes[calls[DuplicateCalls[k]].inode]
          /\ \E i \in 1..Len(calls[DuplicateCalls[k]].filename) :
                calls[DuplicateCalls[k]].filename[i] = NL

\* C6: every root that is a single file is recorded under its own path and
\* its own inode, wherever it stands in the list of roots, and the run does
\* not fail because of it.
C6_FileRoots ==
    /\ s_err # "UnboundLocalError"
    /\ \A i \in 1..Len(calls) :
          encountered[i].root =>
              calls[i] = [filename |-> encountered[i].path, inode |-> encountered[i].ino]

\* the entries a run has to visit: the roots that are files and everything
\* below the roots that are directories
Reachable ==
    {p \in DOMAIN tree :
        \E k \in 1..Len(files) :
            \/ p = files[k] /\ ~tree[p].isdir
            \/ /\ files[k] \in DOMAIN tree
               /\ tree[files[k]].isdir
               /\ Len(p) > Len(files[k]) + 1
               /\ SubSeq(p, 1, Len(files[k]) + 1) = files[k] \o <<SLASH>>}

\* C10: in a finished save run every entry reachable from the roots was
\* handed to the registry exactly once, whatever the list of roots, and no
\* pair in the link store names the same path twice.
C10_ExactlyOnce ==
    s_pc = "done" =>
        /\ \A p \in Reachable :
              Cardinality({i \in 1..Len(calls) : calls[i].filename = p}) = 1
        /\ \A k \in 1..(Len(StoreLinesWritten) \div 2) :
              StoreLinesWritten[2 * k - 1] # StoreLinesWritten[2 * k]

\* C8: the output handles are opened before the traversal starts and none is
\* left open when hard_links_save ends, normally or with an error.
C8_HandlesReleased ==
    /\ s_pc = "walking" =>
          /\ handles.store = "open"
          /\ firstlinks => handles.first = "open"
          /\ extralinks => handles.extra = "open"
    /\ s_pc \in {"done", "failed"} => \A h \in DOMAIN handles : handles[h] # "open"

\* C2: a save of the tree d followed by a restore of the written store on a
\* copy holding only the first-seen name of each inode ends without error,
\* and then every later name exists and shares the inode of the first name.
C2_EndToEnd ==
    (files = <<D>> /\ r_pc \in {"done", "failed"}) =>
        /\ r_pc = "done"
        /\ \A i, j \in 1..Len(encountered) :
              (i < j /\ encountered[i].ino = encountered[j].ino) =>
                  /\ encountered[i].path \in DOMAIN r_fs
                  /\ encountered[j].path \in DOMAIN r_fs
                  /\ r_fs[encountered[j].path].ino = r_fs[encountered[i].path].ino

----------------------------------------------------------------------------
(* Properties of a restore run, checked under SpecRestore *)

\* C4: a restore of a store with an odd number of lines ends in an error,
\* which is a format error when the unmatched last line is reached, and
\* requests no more links than the store has complete pairs.
C4_OddStore ==
    (r_pc \in {"done", "failed"} /\ Len(r_lines) % 2 = 1) =>
        /\ r_pc = "failed"
        /\ Len(linkCalls) <= Len(r_lines) \div 2
        /\ r_fail = PairAt(Len(r_lines) - 1) => r_err = "ValueError"

\* C5: pairs are processed in store order; once pair k has failed the run
\* has ended in an error, no link was requested for a pair after k, and
\* every link made for a pair before k is still there.
C5_FailFast ==
    /\ \A i \in 1..Len(linkCalls) : linkCalls[i].pair = i
    /\ r_fail # 0 =>
          /\ r_pc = "failed"
          /\ r_err # "none"
          /\ \A i \in 1..Len(linkCalls) : linkCalls[i].pair <= r_fail
          /\ Len(linked) = r_fail - 1
          /\ \A i \in 1..Len(linked) :
                /\ linked[i].pair < r_fail
                /\ linked[i].src \in DOMAIN r_fs
                /\ linked[i].dst \in DOMAIN r_fs
                /\ r_fs[linked[i].dst].ino = r_fs[linked[i].src].ino

C5_Witness ==
    /\ r_pc = "failed"
    /\ r_fail = 2
    /\ Len(linked) = 1
    /\ Len(r_lines) = 6

====
